---- MODULE Spec2Model ----
(***************************************************************************)
(* Model of the vouch-js extension (src/src/lib.rs, src/src/npm.rs):       *)
(*   - the package-lock.json extractor (npm::parse_dependencies,           *)
(*     npm::get_dependencies),                                             *)
(*   - JsExtension::identify_package_dependencies,                         *)
(*   - JsExtension::registries_package_metadata and get_latest_version,    *)
(*   - identify_dependency_files.                                          *)
(* Each operation has its own specification over the shared variables.     *)
(***************************************************************************)
EXTENDS Integers, Sequences, FiniteSets, TLC

VARIABLES
    \* one call of npm::get_dependencies
    xPc, xFile, xIncludeDev, xResult,
    \* one call of identify_package_dependencies
    aPc, aName, aVersion, aTmpDirs, aTmpDir, aExit, aLock, aDeps, aResult,
    \* one call of registries_package_metadata, and the registry it queries
    rPc, rName, rVersion, rPreserveOrder, rRegistry, rJsonLatest, rJsonEntry,
    rPackageVersion, rResult,
    \* one call of identify_dependency_files, and the directories it visits
    lPc, lStart, lFs, lWorkingDirectory, lResult

xVars == <<xPc, xFile, xIncludeDev, xResult>>
aVars == <<aPc, aName, aVersion, aTmpDirs, aTmpDir, aExit, aLock, aDeps, aResult>>
rVars == <<rPc, rName, rVersion, rPreserveOrder, rRegistry, rJsonLatest,
           rJsonEntry, rPackageVersion, rResult>>
lVars == <<lPc, lStart, lFs, lWorkingDirectory, lResult>>
vars == <<xVars, aVars, rVars, lVars>>

----------------------------------------------------------------------------
(* Bounds of the model. *)

\* Largest number of entries in a generated package-lock.json tree.
MaxNodes == 3

\* Largest number of keys in the "versions" object of a registry document.
MaxVersions == 2

\* Largest number of components of the directory the locator starts from.
MaxDepth == 3

----------------------------------------------------------------------------
(* Strings and their order.  Rust compares String bytewise; the strings of *)
(* the model are listed here in that order.                                *)

LexOrder == <<"", "1", "10", "2", "9", "a", "b">>

StrRank(s) == CHOOSE i \in DOMAIN LexOrder : LexOrder[i] = s

StrLess(s, t) == StrRank(s) < StrRank(t)

\* Package names of the model.
Names == {"a", "b"}

\* A JSON member that is absent (indexing yields Value::Null).
NoField == "<absent>"

\* Raw values of an entry's "version" member.
RawVersions == {NoField, "", "1", "2"}

\* Raw <<version, dev>> members of the entries of the generated documents.
EntryFields == (RawVersions \X {NoField, "true"}) \cup {<<"1", "false">>}

----------------------------------------------------------------------------
(* vouch_lib::extension::Dependency { name, version: VersionParseResult }  *)

VOk(s) == [ok |-> TRUE, v |-> s]

VMissing == [ok |-> FALSE, v |-> "missing version"]

\* npm.rs get_parsed_version: Some(non-empty) => Ok, else missing-version error.
get_parsed_version(raw) ==
    IF raw # NoField /\ raw # "" THEN VOk(raw) ELSE VMissing

\* Derived Ord of Result<String, VersionError>: Ok(_) < Err(_), Ok by string.
VersionLess(x, y) ==
    IF x.ok /\ y.ok THEN StrLess(x.v, y.v) ELSE x.ok /\ ~y.ok

\* Derived Ord of Dependency: by name, then by version.
DepLess(d, e) ==
    \/ StrLess(d.name, e.name)
    \/ d.name = e.name /\ VersionLess(d.version, e.version)

Dependency(name, version) == [name |-> name, version |-> version]

Range(s) == {s[i] : i \in DOMAIN s}

\* Vec::push: the mutant of HashSetInsert (no deduplication).
VecPush(s, x) == Append(s, x)

\* HashSet::insert on the accumulated dependencies (kept here in insertion order).
HashSetInsert(s, x) == IF x \in Range(s) THEN s ELSE Append(s, x)

\* Insert x into the sorted sequence s, after the elements not greater than it.
RECURSIVE SortedInsert(_, _)
SortedInsert(s, x) ==
    IF s = <<>> THEN <<x>>
    ELSE IF DepLess(x, Head(s)) THEN <<x>> \o s
    ELSE <<Head(s)>> \o SortedInsert(Tail(s), x)

\* Vec::sort of the collected dependencies.
RECURSIVE SortDeps(_)
SortDeps(s) ==
    IF s = <<>> THEN <<>>
    ELSE SortedInsert(SortDeps(Tail(s)), Head(s))

----------------------------------------------------------------------------
(* Results: anyhow::Result<Vec<Dependency>>                                *)

OkDeps(deps) == [ok |-> TRUE, err |-> "", deps |-> deps]

ErrDeps(e) == [ok |-> FALSE, err |-> e, deps |-> <<>>]

----------------------------------------------------------------------------
(* package-lock.json documents.  A parsed object document is a tree of     *)
(* entries: nodes[i].parent = 0 puts entry i in the top-level              *)
(* "dependencies" object, parent = p > 0 in entry p's "dependencies".      *)

NodeRecs(k, fields) ==
    {[parent |-> p, name |-> nm, version |-> f[1], dev |-> f[2]] :
        p \in 0..(k - 1), nm \in Names, f \in fields}

\* A JSON object holds one member per key, and serde_json's Map iterates its
\* members in key order: the entries of one object carry distinct, ascending
\* names.  Entries are numbered breadth-first (parents never decrease).
CanAppend(t, nd) ==
    t # <<>> =>
        \/ t[Len(t)].parent < nd.parent
        \/ t[Len(t)].parent = nd.parent /\ StrLess(t[Len(t)].name, nd.name)

RECURSIVE Trees(_, _)
Trees(k, fields) ==
    IF k = 0 THEN {<<>>}
    ELSE LET smaller == Trees(k - 1, fields)
         IN smaller \cup
            {Append(p[1], p[2]) : p \in
                {q \in smaller \X NodeRecs(k, fields) :
                    Len(q[1]) = k - 1 /\ CanAppend(q[1], q[2])}}

ObjectDoc(dependencies, nodes) ==
    [kind |-> "object", dependencies |-> dependencies, nodes |-> nodes]

NonObjectDoc(kind) == [kind |-> kind, dependencies |-> NoField, nodes |-> <<>>]

\* Contents of a file handed to serde_json::from_reader.
FileContents(fields) ==
    {NonObjectDoc(k) : k \in {"missing", "invalid", "null", "array", "string", "number"}}
    \cup {ObjectDoc(NoField, <<>>), ObjectDoc("string", <<>>)}
    \cup {ObjectDoc("object", t) : t \in Trees(MaxNodes, fields)}

\* std::fs::File::open succeeds.
FileExists(file) == file.kind # "missing"

\* serde_json::from_reader succeeds.
IsValidJson(file) == file.kind # "invalid"

\* package_entry["dependencies"].as_object() is Some.
HasDependenciesObject(value) ==
    value.kind = "object" /\ value.dependencies = "object"

Children(nodes, p) == {i \in DOMAIN nodes : nodes[i].parent = p}

\* entry["dev"].as_bool().unwrap_or_default()
IsDev(entry) == entry.dev = "true"

\* Indices of the entries of the "dependencies" object of p, in iteration order.
ChildSeq(nodes, p) ==
    LET InGroup(i) == nodes[i].parent = p
    IN SelectSeq([i \in 1..Len(nodes) |-> i], InGroup)

EntryRecord(entry) == Dependency(entry.name, get_parsed_version(entry.version))

\* The mutant of ProcessEntry: a skipped dev entry still has its nested
\* "dependencies" object enqueued.
ProcessEntryEnqueueDev(nodes, c, st, include_dev_dependencies) ==
    LET sub == IF Children(nodes, c) # {} THEN Append(st.queue, c) ELSE st.queue
    IN IF ~include_dev_dependencies /\ IsDev(nodes[c])
       THEN [acc |-> st.acc, queue |-> sub]
       ELSE [acc |-> HashSetInsert(st.acc, EntryRecord(nodes[c])), queue |-> sub]

\* One iteration of the for loop of parse_dependencies (npm.rs 33-47).
\* st.acc is all_dependencies, st.queue is unprocessed_dependencies_sections.
ProcessEntry(nodes, c, st, include_dev_dependencies) ==
    IF ~include_dev_dependencies /\ IsDev(nodes[c])
    THEN st
    ELSE [acc   |-> HashSetInsert(st.acc, EntryRecord(nodes[c])),
          queue |-> IF Children(nodes, c) # {}
                    THEN Append(st.queue, c)
                    ELSE st.queue]

\* The for loop over one dependencies section.
RECURSIVE ProcessEntries(_, _, _, _)
ProcessEntries(nodes, cs, st, include_dev_dependencies) ==
    IF cs = <<>> THEN st
    ELSE ProcessEntries(nodes, Tail(cs),
             ProcessEntry(nodes, Head(cs), st, include_dev_dependencies),
             include_dev_dependencies)

\* The while loop: pop_front a section and process its entries.
RECURSIVE ProcessSections(_, _, _)
ProcessSections(nodes, st, include_dev_dependencies) ==
    IF st.queue = <<>> THEN st.acc
    ELSE ProcessSections(nodes,
             ProcessEntries(nodes, ChildSeq(nodes, Head(st.queue)),
                 [acc |-> st.acc, queue |-> Tail(st.queue)],
                 include_dev_dependencies),
             include_dev_dependencies)

parse_dependencies(package_entry, include_dev_dependencies) ==
    LET seed == IF HasDependenciesObject(package_entry) THEN <<0>> ELSE <<>>
        all_dependencies ==
            ProcessSections(package_entry.nodes, [acc |-> <<>>, queue |-> seed],
                            include_dev_dependencies)
    IN OkDeps(SortDeps(all_dependencies))

get_dependencies(file, include_dev_dependencies) ==
    IF ~FileExists(file) THEN ErrDeps("io")
    ELSE IF ~IsValidJson(file) THEN ErrDeps("parse")
    ELSE parse_dependencies(file, include_dev_dependencies)

NoTmpDir == "<none>"

ErrPackageDependencies(e) ==
    [ok |-> FALSE, err |-> e, package_version |-> VMissing,
     registry_host_name |-> "", dependencies |-> <<>>]

\* The variables of identify_package_dependencies while another operation is
\* specified.
IdleOpA ==
    /\ aPc = "idle"
    /\ aName = "a"
    /\ aVersion = NoField
    /\ aTmpDirs = {}
    /\ aTmpDir = NoTmpDir
    /\ aExit = "none"
    /\ aLock = NonObjectDoc("missing")
    /\ aDeps = <<>>
    /\ aResult = ErrPackageDependencies("pending")

----------------------------------------------------------------------------
(* Specification of the extractor: one call of npm::get_dependencies.      *)

NoBody == [kind |-> "none", versions |-> NoField, entries |-> <<>>]

ErrMetadata(e) ==
    [ok |-> FALSE, err |-> e, registry_host_name |-> "", human_url |-> <<>>,
     artifact_url |-> "", is_primary |-> FALSE, package_version |-> NoField]

NoneFiles == [some |-> FALSE, files |-> <<>>]

\* The variables of identify_dependency_files while another operation is
\* specified.
IdleLocate ==
    /\ lPc = "idle"
    /\ lStart = <<>>
    /\ lFs = [d \in {0} |-> "none"]
    /\ lWorkingDirectory = <<>>
    /\ lResult = NoneFiles

\* The variables of registries_package_metadata while another operation is
\* specified.
IdleRegistry ==
    /\ rPc = "idle"
    /\ rName = "a"
    /\ rVersion = NoField
    /\ rPreserveOrder = FALSE
    /\ rRegistry = NoBody
    /\ rJsonLatest = NoBody
    /\ rJsonEntry = NoBody
    /\ rPackageVersion = NoField
    /\ rResult = ErrMetadata("pending")

\* The variables of the extractor call while another operation is specified.
IdleExtract ==
    /\ xPc = "idle"
    /\ xFile = NonObjectDoc("missing")
    /\ xIncludeDev = FALSE
    /\ xResult = ErrDeps("pending")

InitExtract ==
    /\ IdleOpA /\ IdleRegistry /\ IdleLocate
    /\ xPc = "call"
    /\ xFile \in FileContents(EntryFields)
    /\ xIncludeDev \in BOOLEAN
    /\ xResult = ErrDeps("pending")

GetDependenciesCall ==
    /\ xPc = "call"
    /\ xResult' = get_dependencies(xFile, xIncludeDev)
    /\ xPc' = "done"
    /\ UNCHANGED <<xFile, xIncludeDev, aVars, rVars, lVars>>

NextExtract == GetDependenciesCall

SpecExtract == InitExtract /\ [][NextExtract]_vars

----------------------------------------------------------------------------
(* Properties of the extractor.                                            *)

\* Entry i or one of the entries it is nested in has dev = true.
RECURSIVE HasDevOnPath(_, _)
HasDevOnPath(nodes, i) ==
    \/ IsDev(nodes[i])
    \/ nodes[i].parent # 0 /\ HasDevOnPath(nodes, nodes[i].parent)

\* Entry i is nested, at some depth, in an entry with dev = true.
NestedBelowDev(nodes, i) ==
    nodes[i].parent # 0 /\ HasDevOnPath(nodes, nodes[i].parent)

ExtractDone == xPc = "done" /\ xResult.ok

\* C1 as stated: with includeDev = false, every non-dev entry nested at any
\* depth below a dev = true entry contributes its record to the result.
C1_NestedBelowDevContributes ==
    (ExtractDone /\ ~xIncludeDev) =>
        \A i \in DOMAIN xFile.nodes :
            (~IsDev(xFile.nodes[i]) /\ NestedBelowDev(xFile.nodes, i))
                => EntryRecord(xFile.nodes[i]) \in Range(xResult.deps)

\* C1 amended: with includeDev = false a dev = true entry is skipped together
\* with its nested dependencies object; the result holds exactly the records of
\* the entries that are not dev and are not nested below a dev = true entry.
C1_DevSubtreeSkipped ==
    (ExtractDone /\ ~xIncludeDev) =>
        Range(xResult.deps) =
            {EntryRecord(xFile.nodes[i]) :
                i \in {j \in DOMAIN xFile.nodes : ~HasDevOnPath(xFile.nodes, j)}}

\* A non-dev entry below a dev = true entry whose record is not in the
\* non-empty result.
C1_Witness ==
    /\ ExtractDone /\ ~xIncludeDev
    /\ xResult.deps # <<>>
    /\ \E i \in DOMAIN xFile.nodes :
        /\ ~IsDev(xFile.nodes[i])
        /\ NestedBelowDev(xFile.nodes, i)
        /\ EntryRecord(xFile.nodes[i]) \notin Range(xResult.deps)

\* C4 as stated: a document that is not valid JSON, or is valid JSON but not
\* an object, makes the extraction fail with a parse error.
C4_NonObjectFails ==
    (xPc = "done" /\ xFile.kind \in {"invalid", "null", "array", "string", "number"})
        => (~xResult.ok /\ xResult.err = "parse")

\* C5: the returned sequence is strictly ascending by (name, version), for
\* either value of includeDev.
C5_StrictlyAscending ==
    ExtractDone =>
        \A i \in 1..(Len(xResult.deps) - 1) :
            DepLess(xResult.deps[i], xResult.deps[i + 1])

\* The same (name, version) pair at two nesting depths, both visited, in a
\* result of at least two records.
C5_Witness ==
    /\ ExtractDone
    /\ Len(xResult.deps) >= 2
    /\ \E i, j \in DOMAIN xFile.nodes :
        /\ xFile.nodes[i].parent = 0 /\ xFile.nodes[j].parent # 0
        /\ EntryRecord(xFile.nodes[i]) = EntryRecord(xFile.nodes[j])
        /\ (xIncludeDev \/ ~HasDevOnPath(xFile.nodes, j))
        /\ (xIncludeDev \/ ~IsDev(xFile.nodes[i]))

----------------------------------------------------------------------------
(* JsExtension::identify_package_dependencies (lib.rs 39-98).              *)

\* Raw <<version, dev>> members of the entries of the lockfiles npm writes.
LockFields ==
    {<<NoField, NoField>>, <<"1", NoField>>, <<"2", NoField>>, <<"1", "true">>}

\* Caller-supplied package_version: None, or Some of a string.
VersionArgs == {NoField, "", "1"}

\* Directory names TempDir::new can draw under the system temp directory.
TmpNames == {"vouch_js_identify_package_dependencies.0",
             "vouch_js_identify_package_dependencies.1"}

HOST_NAME == "npmjs.com"

OkPackageDependencies(package_version, dependencies) ==
    [ok |-> TRUE, err |-> "", package_version |-> package_version,
     registry_host_name |-> HOST_NAME, dependencies |-> dependencies]

Reverse(s) == [i \in 1..Len(s) |-> s[Len(s) + 1 - i]]

\* The mutant of TargetPackageInstances: the reverse() is left out.
TargetPackageInstancesAscending(dependencies, package_name) ==
    LET IsTarget(d) == d.name = package_name
    IN SortDeps(SelectSeq(dependencies, IsTarget))

\* lib.rs 75-81: the records named like the target, sorted, then reversed.
TargetPackageInstances(dependencies, package_name) ==
    LET IsTarget(d) == d.name = package_name
    IN Reverse(SortDeps(SelectSeq(dependencies, IsTarget)))

\* lib.rs 71-86: [ok, version]; not ok when no record has the target's name.
ResolveTargetVersion(dependencies, package_name, package_version) ==
    IF package_version # NoField
    THEN [ok |-> TRUE, version |-> VOk(package_version)]
    ELSE LET target_package_instances ==
                 TargetPackageInstances(dependencies, package_name)
         IN IF target_package_instances = <<>>
            THEN [ok |-> FALSE, version |-> VMissing]
            ELSE [ok |-> TRUE, version |-> target_package_instances[1].version]

\* The mutant of FilterDependencies: records are dropped by name only.
FilterDependenciesByName(dependencies, package_name, package_version) ==
    LET Keep(d) == d.name # package_name
    IN SelectSeq(dependencies, Keep)

\* lib.rs 88-91
FilterDependencies(dependencies, package_name, package_version) ==
    LET Keep(d) == d.name # package_name /\ d.version # package_version
    IN SelectSeq(dependencies, Keep)

\* The mutant of TmpDirsAfterReturn: the directory is removed on the
\* successful return only.
TmpDirsAfterOkReturn(dirs, tmp_dir, result) ==
    IF result.ok THEN dirs \ {tmp_dir} ELSE dirs

\* tmp_dir (lib.rs 46) goes out of scope on every return of the function, by
\* `?` or at the end: TempDir's Drop removes the directory.
TmpDirsAfterReturn(dirs, tmp_dir, result) == dirs \ {tmp_dir}

\* lib.rs 68-97: everything after the package manager has run.
AfterNpm(lock, package_name, package_version) ==
    LET read == get_dependencies(lock, FALSE)
        resolved == ResolveTargetVersion(read.deps, package_name, package_version)
    IN IF ~read.ok THEN [deps |-> <<>>, result |-> ErrPackageDependencies(read.err)]
       ELSE IF ~resolved.ok
       THEN [deps |-> read.deps,
             result |-> ErrPackageDependencies("target package not found")]
       ELSE [deps |-> read.deps,
             result |-> OkPackageDependencies(resolved.version,
                            FilterDependencies(read.deps, package_name,
                                               resolved.version))]

InitOpA ==
    /\ IdleExtract /\ IdleRegistry /\ IdleLocate
    /\ aPc = "start"
    /\ aName \in Names
    /\ aVersion \in VersionArgs
    /\ aTmpDirs \in {{}, {"vouch_js_identify_package_dependencies.0"}}
    /\ aTmpDir = NoTmpDir
    /\ aExit = "none"
    /\ aLock = NonObjectDoc("missing")
    /\ aDeps = <<>>
    /\ aResult = ErrPackageDependencies("pending")

\* lib.rs 46: TempDir::new creates a directory that did not exist.
TempDirNew ==
    /\ aPc = "start"
    /\ \E d \in TmpNames \ aTmpDirs :
        /\ aTmpDir' = d
        /\ aTmpDirs' = aTmpDirs \cup {d}
    /\ aPc' = "npm"
    /\ UNCHANGED <<aName, aVersion, aExit, aLock, aDeps, aResult, xVars, rVars, lVars>>

\* lib.rs 46: TempDir::new fails; nothing was created.
TempDirNewFails ==
    /\ aPc = "start"
    /\ aResult' = ErrPackageDependencies("io")
    /\ aPc' = "done"
    /\ UNCHANGED <<aName, aVersion, aTmpDirs, aTmpDir, aExit, aLock, aDeps, xVars, rVars, lVars>>

\* lib.rs 60-66: Command::output() fails (npm could not be spawned).
NpmSpawnFails ==
    /\ aPc = "npm"
    /\ aResult' = ErrPackageDependencies("spawn")
    /\ aTmpDirs' = TmpDirsAfterReturn(aTmpDirs, aTmpDir, aResult')
    /\ aPc' = "done"
    /\ UNCHANGED <<aName, aVersion, aTmpDir, aExit, aLock, aDeps, xVars, rVars, lVars>>

\* lib.rs 60-66: npm runs to completion with some exit status, leaving some
\* (or no) package-lock.json in the temporary directory.  The Output, and the
\* status in it, is discarded.
NpmRuns ==
    /\ aPc = "npm"
    /\ aExit' \in {"0", "1"}
    /\ aLock' \in FileContents(LockFields)
    /\ aPc' = "ran"
    /\ UNCHANGED <<aName, aVersion, aTmpDirs, aTmpDir, aDeps, aResult, xVars, rVars, lVars>>

\* lib.rs 68-98
ReadAndReturn ==
    /\ aPc = "ran"
    /\ LET r == AfterNpm(aLock, aName, aVersion)
       IN /\ aDeps' = r.deps
          /\ aResult' = r.result
          /\ aTmpDirs' = TmpDirsAfterReturn(aTmpDirs, aTmpDir, r.result)
    /\ aPc' = "done"
    /\ UNCHANGED <<aName, aVersion, aTmpDir, aExit, aLock, xVars, rVars, lVars>>

NextOpA ==
    \/ TempDirNew
    \/ TempDirNewFails
    \/ NpmSpawnFails
    \/ NpmRuns
    \/ ReadAndReturn

SpecOpA == InitOpA /\ [][NextOpA]_vars

----------------------------------------------------------------------------
(* Properties of identify_package_dependencies.                            *)

OpADone == aPc = "done"

\* C2: in every successful result the dependencies are exactly the extracted
\* records whose name differs from the target's name and whose version differs
\* from the resolved target version, in their extracted (ascending) order.
C2_FilterExact ==
    (OpADone /\ aResult.ok) =>
        /\ Range(aResult.dependencies) =
              {d \in Range(aDeps) :
                  d.name # aName /\ d.version # aResult.package_version}
        /\ \A i \in 1..(Len(aResult.dependencies) - 1) :
              DepLess(aResult.dependencies[i], aResult.dependencies[i + 1])
        /\ \A d \in Range(aResult.dependencies) : d.name # aName

\* A record of another package is dropped on the version match alone, and
\* another record is kept.
C2_Witness ==
    /\ OpADone /\ aResult.ok
    /\ aResult.dependencies # <<>>
    /\ \E d \in Range(aDeps) :
        /\ d.name # aName
        /\ d.version = aResult.package_version
        /\ d \notin Range(aResult.dependencies)

\* C3 as stated: the operation fails whenever the package manager exits with a
\* non-zero status and whenever no package-lock.json was written.
C3_NonZeroExitOrNoLockfileFails ==
    (OpADone /\ (aExit = "1" \/ (aExit # "none" /\ ~FileExists(aLock))))
        => ~aResult.ok

\* C8: the call creates a directory that did not exist before, the directory
\* exists while the call runs, and it is gone when the call has returned, on
\* every exit path.
C8_TmpDirRemoved ==
    /\ [](/\ (aPc \in {"npm", "ran"} => aTmpDir \in aTmpDirs)
          /\ (OpADone => aTmpDir \notin aTmpDirs))
    /\ [][(aPc = "start" /\ aPc' = "npm") =>
              (aTmpDir' \notin aTmpDirs /\ aTmpDir' \in aTmpDirs')]_vars

\* The call has returned an error after its directory was created and the
\* lockfile was extracted.
C8_Witness ==
    /\ OpADone /\ ~aResult.ok
    /\ aTmpDir # NoTmpDir
    /\ aResult.err = "target package not found"
    /\ aTmpDirs # {}

\* C9: a supplied version is the resolved version verbatim; without one the
\* resolved version is that of the greatest extracted record named like the
\* target, and the call fails when there is no such record.
C9_ResolvedVersion ==
    (OpADone /\ aExit # "none" /\ get_dependencies(aLock, FALSE).ok) =>
        LET instances == {d \in Range(aDeps) : d.name = aName}
        IN /\ aVersion # NoField =>
                (aResult.ok /\ aResult.package_version = VOk(aVersion))
           /\ (aVersion = NoField /\ instances = {}) => ~aResult.ok
           /\ (aVersion = NoField /\ instances # {}) =>
                /\ aResult.ok
                /\ \E d \in instances :
                    /\ d.version = aResult.package_version
                    /\ \A e \in instances : ~DepLess(d, e)

\* No version supplied, two records named like the target, the greater chosen.
C9_Witness ==
    /\ OpADone /\ aResult.ok /\ aVersion = NoField
    /\ \E d, e \in Range(aDeps) :
        /\ d.name = aName /\ e.name = aName
        /\ DepLess(e, d)
        /\ aResult.package_version = d.version

----------------------------------------------------------------------------
(* The registry document and JsExtension::registries_package_metadata      *)
(* (lib.rs 133-218).                                                       *)

\* Version keys of the model, and values of versions[v].dist.tarball.
VersionKeys == {"1", "10", "9"}

Tarballs == {NoField, "not a url", "https://x/A.tgz", "https://y/B.tgz"}

\* The members of a "versions" object in the order of the document's text,
\* with distinct keys.
RECURSIVE VersionEntries(_)
VersionEntries(k) ==
    IF k = 0 THEN {<<>>}
    ELSE LET smaller == VersionEntries(k - 1)
         IN smaller \cup
            {Append(p[1], p[2]) : p \in
                {q \in smaller \X [key : VersionKeys, tarball : Tarballs] :
                    /\ Len(q[1]) = k - 1
                    /\ \A i \in DOMAIN q[1] : q[1][i].key # q[2].key}}

\* Response bodies of https://registry.npmjs.com/{{package_name}}.
RegistryBodies ==
    {[kind |-> "invalid", versions |-> NoField, entries |-> <<>>],
     [kind |-> "json", versions |-> NoField, entries |-> <<>>]}
    \cup {[kind |-> "json", versions |-> "object", entries |-> e] :
            e \in VersionEntries(MaxVersions)}

\* Insert key x into the ascending sequence s.
RECURSIVE KeyInsert(_, _)
KeyInsert(s, x) ==
    IF s = <<>> THEN <<x>>
    ELSE IF StrLess(x, Head(s)) THEN <<x>> \o s
    ELSE <<Head(s)>> \o KeyInsert(Tail(s), x)

RECURSIVE SortKeys(_)
SortKeys(s) == IF s = <<>> THEN <<>> ELSE KeyInsert(SortKeys(Tail(s)), Head(s))

DocumentKeys(entries) == [i \in 1..Len(entries) |-> entries[i].key]

\* serde_json::Map::keys(): in document order when serde_json is built with
\* preserve_order (IndexMap), in ascending key order otherwise (BTreeMap, the
\* default).
MapKeys(entries, preserve_order) ==
    IF preserve_order THEN DocumentKeys(entries)
    ELSE SortKeys(DocumentKeys(entries))

\* The mutant of LastKey: the first key.
FirstKey(keys) == keys[1]

\* versions.keys().last() on a non-empty map (lib.rs 175).
LastKey(keys) == keys[Len(keys)]

\* lib.rs 170-177 on a fetched body: [ok, err, version]; version is NoField
\* for Ok(None).
get_latest_version(json, preserve_order) ==
    IF json.versions # "object"
    THEN [ok |-> FALSE, err |-> "Failed to find versions JSON section.",
          version |-> NoField]
    ELSE LET keys == MapKeys(json.entries, preserve_order)
         IN [ok |-> TRUE, err |-> "",
             version |-> IF keys = <<>> THEN NoField ELSE LastKey(keys)]

\* registry_entry_json["versions"][package_version]["dist"]["tarball"]
TarballOf(json, package_version) ==
    IF \E i \in DOMAIN json.entries : json.entries[i].key = package_version
    THEN LET i == CHOOSE j \in DOMAIN json.entries :
                      json.entries[j].key = package_version
         IN json.entries[i].tarball
    ELSE NoField

IsUrl(str) == str \in {"https://x/A.tgz", "https://y/B.tgz"}

\* lib.rs 210-219: [ok, err, url]
get_archive_url(registry_entry_json, package_version) ==
    LET tarball == TarballOf(registry_entry_json, package_version)
    IN IF tarball = NoField
       THEN [ok |-> FALSE, err |-> "Failed to parse package archive URL.",
             url |-> ""]
       ELSE IF ~IsUrl(tarball) THEN [ok |-> FALSE, err |-> "url", url |-> ""]
       ELSE [ok |-> TRUE, err |-> "", url |-> tarball]

\* lib.rs 179-194
get_registry_human_url(package_name, package_version) ==
    <<"https://www.npmjs.com/package/", package_name, "/v/", package_version>>

OkMetadata(human_url, artifact_url, package_version) ==
    [ok |-> TRUE, err |-> "", registry_host_name |-> HOST_NAME,
     human_url |-> human_url, artifact_url |-> artifact_url,
     is_primary |-> TRUE, package_version |-> package_version]

\* The mutant of EntryJsonBody: the document fetched for the latest version
\* is used again.
EntryJsonBodyCached(registry, json_latest) == json_latest

\* lib.rs 156: the body get_registry_entry_json receives from the registry.
EntryJsonBody(registry, json_latest) == registry

InitRegistry ==
    /\ IdleExtract /\ IdleOpA /\ IdleLocate
    /\ rPc = "start"
    /\ rName = "a"
    /\ rVersion \in {NoField, "1"}
    /\ rPreserveOrder \in BOOLEAN
    /\ rRegistry \in RegistryBodies
    /\ rJsonLatest = NoBody
    /\ rJsonEntry = NoBody
    /\ rPackageVersion = NoField
    /\ rResult = ErrMetadata("pending")

\* The registry's content changes while the call is in progress, between the
\* latest-version step and the fetch of line 156.  (A change before the first
\* fetch is another initial content; successive changes amount to one.)
RegistryChanges ==
    /\ rPc = "entry"
    /\ rJsonLatest \in {NoBody, rRegistry}
    /\ rRegistry' \in RegistryBodies \ {rRegistry}
    /\ UNCHANGED <<rPc, rName, rVersion, rPreserveOrder, rJsonLatest, rJsonEntry,
                   rPackageVersion, rResult, xVars, aVars, lVars>>

\* lib.rs 139: the version is supplied.
VersionSupplied ==
    /\ rPc = "start"
    /\ rVersion # NoField
    /\ rPackageVersion' = rVersion
    /\ rPc' = "entry"
    /\ UNCHANGED <<rName, rVersion, rPreserveOrder, rRegistry, rJsonLatest,
                   rJsonEntry, rResult, xVars, aVars, lVars>>

\* lib.rs 203-205: the GET or the read of the body fails, in either fetch.
FetchFails ==
    /\ \/ rPc = "start" /\ rVersion = NoField
       \/ rPc = "entry"
    /\ rResult' = ErrMetadata("transport")
    /\ rPc' = "done"
    /\ UNCHANGED <<rName, rVersion, rPreserveOrder, rRegistry, rJsonLatest,
                   rJsonEntry, rPackageVersion, xVars, aVars, lVars>>

\* lib.rs 140-142: get_latest_version fetches the registry document and takes
\* its last version key.
GetLatestVersion ==
    /\ rPc = "start"
    /\ rVersion = NoField
    /\ rJsonLatest' = rRegistry
    /\ LET latest == get_latest_version(rRegistry, rPreserveOrder)
       IN IF rRegistry.kind = "invalid"
          THEN /\ rResult' = ErrMetadata("JSON was not well-formatted")
               /\ rPc' = "done"
               /\ UNCHANGED rPackageVersion
          ELSE IF ~latest.ok
          THEN /\ rResult' = ErrMetadata(latest.err)
               /\ rPc' = "done"
               /\ UNCHANGED rPackageVersion
          ELSE IF latest.version = NoField
          THEN /\ rResult' = ErrMetadata("Failed to find package version.")
               /\ rPc' = "done"
               /\ UNCHANGED rPackageVersion
          ELSE /\ rPackageVersion' = latest.version
               /\ rPc' = "entry"
               /\ UNCHANGED rResult
    /\ UNCHANGED <<rName, rVersion, rPreserveOrder, rRegistry, rJsonEntry,
                   xVars, aVars, lVars>>

\* lib.rs 145-165: the human URL, the second fetch, the archive URL.
GetEntryAndReturn ==
    /\ rPc = "entry"
    /\ rJsonEntry' = EntryJsonBody(rRegistry, rJsonLatest)
    /\ LET artifact_url == get_archive_url(rJsonEntry', rPackageVersion)
       IN rResult' =
            IF rJsonEntry'.kind # "json"
            THEN ErrMetadata("JSON was not well-formatted")
            ELSE IF ~artifact_url.ok THEN ErrMetadata(artifact_url.err)
            ELSE OkMetadata(get_registry_human_url(rName, rPackageVersion),
                            artifact_url.url, rPackageVersion)
    /\ rPc' = "done"
    /\ UNCHANGED <<rName, rVersion, rPreserveOrder, rRegistry, rJsonLatest,
                   rPackageVersion, xVars, aVars, lVars>>

NextRegistry ==
    \/ RegistryChanges
    \/ VersionSupplied
    \/ FetchFails
    \/ GetLatestVersion
    \/ GetEntryAndReturn

SpecRegistry == InitRegistry /\ [][NextRegistry]_vars

----------------------------------------------------------------------------
(* Properties of registries_package_metadata.                              *)

\* C6 as stated: with no version supplied the resolved version is the last
\* key of the fetched document's `versions` object in the document's own
\* order, and the lookup fails with a not-found error when it has no keys.
C6_LastKeyInDocumentOrder ==
    (rPc \in {"entry", "done"} /\ rVersion = NoField
        /\ rJsonLatest.kind = "json" /\ rJsonLatest.versions = "object") =>
        IF rJsonLatest.entries = <<>>
        THEN rPc = "done" /\ ~rResult.ok
             /\ rResult.err = "Failed to find package version."
        ELSE rPackageVersion =
                 rJsonLatest.entries[Len(rJsonLatest.entries)].key

RegistryDoneOk == rPc = "done" /\ rResult.ok

\* C10 as stated: with no version supplied one fetched document serves both
\* steps, so packageVersion is the last version key of the document that
\* supplied artifactUrl.
C10_SameDocument ==
    (RegistryDoneOk /\ rVersion = NoField) =>
        /\ rJsonEntry = rJsonLatest
        /\ rResult.package_version =
               LastKey(MapKeys(rJsonEntry.entries, rPreserveOrder))

\* C10 amended: with no version supplied the registry is fetched twice; the
\* latest version is the last key of the first fetched document, and the
\* archive URL is read, under that key, from a second document fetched from
\* the registry as it is at that moment.
C10_TwoFetches ==
    /\ []((RegistryDoneOk /\ rVersion = NoField) =>
            /\ rResult.package_version =
                   LastKey(MapKeys(rJsonLatest.entries, rPreserveOrder))
            /\ rResult.artifact_url =
                   TarballOf(rJsonEntry, rResult.package_version))
    /\ [][(rPc = "entry" /\ rPc' = "done" /\ rResult'.err # "transport")
              => rJsonEntry' = rRegistry]_vars

\* A successful call whose two fetched documents differ, the second with
\* another last key.
C10_Witness ==
    /\ RegistryDoneOk /\ rVersion = NoField
    /\ rJsonEntry # rJsonLatest
    /\ rResult.package_version #
           LastKey(MapKeys(rJsonEntry.entries, rPreserveOrder))

----------------------------------------------------------------------------
(* identify_dependency_files (lib.rs 246-280).  A directory is the sequence *)
(* of the components of its absolute path; the root is the empty sequence.  *)

DirNames == {"a", "b"}

RECURSIVE Dirs(_)
Dirs(k) ==
    IF k = 0 THEN {<<>>}
    ELSE LET shorter == Dirs(k - 1)
         IN shorter \cup
            {Append(p[1], p[2]) : p \in
                {q \in shorter \X DirNames : Len(q[1]) = k - 1}}

\* What <directory>/package-lock.json is: nothing, a regular file, a directory.
PathKinds == {"none", "file", "dir"}

\* The mutant of IsFile: Path::exists.
PathExists(kind) == kind # "none"

\* target_absolute_path.is_file()
IsFile(kind) == kind = "file"

\* PathBuf::pop
Pop(dir) == IF dir = <<>> THEN dir ELSE SubSeq(dir, 1, Len(dir) - 1)

\* DependencyFileType::Npm.file_name()
NpmFileName == "package-lock.json"

DependencyFile(dir) == [type |-> "Npm", path |-> Append(dir, NpmFileName)]

SomeFiles(files) == [some |-> TRUE, files |-> files]

\* lib.rs 256-266: the dependency files of one directory; fs gives what the
\* package-lock.json of the ancestor with that many components is.
DependencyFilesAt(fs, dir) ==
    IF IsFile(fs[Len(dir)]) THEN <<DependencyFile(dir)>> ELSE <<>>

InitLocate ==
    /\ IdleExtract /\ IdleOpA /\ IdleRegistry
    /\ lPc = "loop"
    /\ lStart \in Dirs(MaxDepth)
    /\ lFs \in [0..Len(lStart) -> PathKinds]
    /\ lWorkingDirectory = lStart
    /\ lResult = NoneFiles

\* lib.rs 267-269
ReturnFound ==
    /\ lPc = "loop"
    /\ DependencyFilesAt(lFs, lWorkingDirectory) # <<>>
    /\ lResult' = SomeFiles(DependencyFilesAt(lFs, lWorkingDirectory))
    /\ lPc' = "done"
    /\ UNCHANGED <<lStart, lFs, lWorkingDirectory, xVars, aVars, rVars>>

\* lib.rs 272-274, 279
ReturnNoneAtRoot ==
    /\ lPc = "loop"
    /\ DependencyFilesAt(lFs, lWorkingDirectory) = <<>>
    /\ lWorkingDirectory = <<>>
    /\ lResult' = NoneFiles
    /\ lPc' = "done"
    /\ UNCHANGED <<lStart, lFs, lWorkingDirectory, xVars, aVars, rVars>>

\* lib.rs 277
MoveUp ==
    /\ lPc = "loop"
    /\ DependencyFilesAt(lFs, lWorkingDirectory) = <<>>
    /\ lWorkingDirectory # <<>>
    /\ lWorkingDirectory' = Pop(lWorkingDirectory)
    /\ UNCHANGED <<lPc, lStart, lFs, lResult, xVars, aVars, rVars>>

NextLocate ==
    \/ ReturnFound
    \/ ReturnNoneAtRoot
    \/ MoveUp

SpecLocate == InitLocate /\ [][NextLocate]_vars

\* The call is synchronous: the loop keeps running until it returns.
LiveLocate == SpecLocate /\ WF_vars(NextLocate)

----------------------------------------------------------------------------
(* Properties of identify_dependency_files.                                *)

\* The numbers of components of the ancestors of the start directory (itself
\* and the root included) that hold a regular file package-lock.json.
Hits == {d \in 0..Len(lStart) : lFs[d] = "file"}

Nearest == CHOOSE d \in Hits : \A e \in Hits : e <= d

\* C7: the call terminates; it returns None exactly when no directory from the
\* start directory up to the root holds a regular file package-lock.json, and
\* otherwise the manifest of the nearest such directory.
C7_NearestAncestor ==
    /\ <>(lPc = "done")
    /\ [](lPc = "done" =>
            IF Hits = {} THEN lResult = NoneFiles
            ELSE lResult =
                   SomeFiles(<<DependencyFile(SubSeq(lStart, 1, Nearest))>>))

\* The manifest of a proper ancestor was returned although a farther ancestor
\* holds one too and the start directory holds a directory of that name.
C7_Witness ==
    /\ lPc = "done" /\ lResult.some
    /\ Len(lStart) >= 2
    /\ lFs[Len(lStart)] = "dir"
    /\ Nearest < Len(lStart)
    /\ \E e \in Hits : e < Nearest

====
